---- MODULE Spec2Model ----
(***************************************************************************)
(* Model of extension/data/api.js: the request relay (sendRequest and its  *)
(* convenience wrappers) and the memoized identity fetch                   *)
(* (userDetailsPromise, getUserDetails, getModhash, getCurrentUser).       *)
(*                                                                         *)
(* JavaScript values are written as follows.  A value that may be absent   *)
(* (undefined) is a sequence of length at most one: <<>> is undefined and  *)
(* <<x>> is x.  Booleans and strings that travel in a request descriptor   *)
(* are the strings of their literals ("true", "GET", "undefined").         *)
(***************************************************************************)
EXTENDS Integers, Sequences, FiniteSets, TLC

\* ------------------------------------------------------------- bounds
\* Number of sendRequest calls user code makes through the wrappers.
MaxCalls == 2
\* Number of getUserDetails / getModhash / getCurrentUser calls.
MaxGetters == 2

\* ---------------------------------------------------- program constants
\* fetchUserDetails (tries = 3)
DefaultTries == 3
\* error.response.status === 504
GatewayTimeout == 504

\* ------------------------------------------------ JavaScript objects
Undefined == "undefined"

\* An object literal: a function from its own keys to their values.
Obj(pairs) == [k \in {p[1] : p \in pairs} |-> (CHOOSE p \in pairs : p[1] = k)[2]]

\* {...a, ...b}: the keys of both, b's value where both have the key.
Spread(a, b) == [k \in (DOMAIN a) \cup (DOMAIN b) |-> IF k \in DOMAIN b THEN b[k] ELSE a[k]]

\* Reading a property of an object: undefined when the key is absent.
Get(o, k) == IF k \in DOMAIN o THEN o[k] ELSE Undefined

\* A default parameter value (x = d) applies when undefined is passed.
Default(x, d) == IF x = Undefined THEN d ELSE x

\* ------------------------------------------------------ input domains
Endpoints == {"/api/me.json", "/api/info"}

\* The query or body argument of a wrapper.
Args == {Undefined, "arg"}

\* The options argument of a wrapper ("Additional options passed to
\* sendRequest()"): none, and ones that carry okOnly, method or oauth.
OptionSets == {Obj({}), Obj({<<"okOnly", "false">>, <<"oauth", "true">>}), Obj({<<"method", "PUT">>})}

\* ------------------------------------------------- parsed JSON values
UnsafeName == "bob<script>"
SafeName == "bob"

\* /api/me.json of a signed-in user, as parsed, before sanitizing.
RawMe == [data |-> <<[modhash |-> "mh-new", name |-> UnsafeName]>>]
\* A details object an earlier process stored (sanitized when stored).
OldMe == [data |-> <<[modhash |-> "mh-old", name |-> SafeName]>>]
\* /api/me.json of a signed-out user: {} (no data field).
EmptyObject == [data |-> <<>>]

\* Response bodies as the executor serializes them.
NullBody == "<null>"
BodyMe == "{data:{modhash,name}}"
BodyEmpty == "{}"
BodyHtml == "<html>"

\* The bodies and HTTP statuses of the replies to a wrapper call of user
\* code, and of the replies to the identity fetch's '/api/me.json'.
CallBodies == {NullBody, BodyEmpty, BodyHtml}
CallStatuses == {200, 204, 504}
MeBodies == {NullBody, BodyMe, BodyEmpty, BodyHtml}
MeStatuses == {200, 204, 403, 504}

\* JSON.parse of a body: <<value>>, or <<>> when it throws a SyntaxError.
JSONParse(body) == IF body = BodyMe THEN <<RawMe>> ELSE IF body = BodyEmpty THEN <<EmptyObject>> ELSE <<>>

\* TBStorage.purifyObject: neutralizes unsafe content of every string.
PurifyString(s) == IF s = UnsafeName THEN SafeName ELSE s

purifyObject(o) == [data |-> IF o.data = <<>> THEN <<>> ELSE <<[modhash |-> PurifyString(o.data[1].modhash), name |-> PurifyString(o.data[1].name)]>>]

\* ------------------------------------------------------ the transport
\* The reply envelope: error, message (present only with error) and
\* response, the arguments of Response(): <<body, init>>.
ResponseTuples(bodies, statuses) == {<< <<b, [status |-> s]>> >> : b \in bodies, s \in statuses}

Envelopes(bodies, statuses) == {r \in [error : BOOLEAN, message : {"", "boom"}, response : {<<>>} \cup ResponseTuples(bodies, statuses)] : (r.message # "") = r.error}

ReplyEnvelopes == Envelopes(CallBodies, CallStatuses)

MeReplyEnvelopes == Envelopes(MeBodies, MeStatuses)

\* ------------------------------------------------- new Response(...)
\* Statuses whose response cannot have a body.
NullBodyStatuses == {101, 103, 204, 205, 304}

\* The Response constructor throws a RangeError for a status outside
\* 200..599 and a TypeError for a body given with a null body status.
ResponseThrows(args) == IF args[2].status < 200 \/ args[2].status > 599 THEN "RangeError" ELSE IF args[1] # NullBody /\ args[2].status \in NullBodyStatuses THEN "TypeError" ELSE ""

Response(args) == [status |-> args[2].status, body |-> args[1]]

\* --------------------------------------------------- settled promises
Resolved(response, value) == [kind |-> "resolved", name |-> "", message |-> "", response |-> response, value |-> value]

Rejected(name, message, response) == [kind |-> "rejected", name |-> name, message |-> message, response |-> response, value |-> <<>>]

\* ----------------------------------------------------- sendRequest
\* The message sendRequest posts: the descriptor's six fields, each
\* undefined when the descriptor lacks it, under action 'tb-request'.
sendRequestMessage(d) == [action |-> "tb-request", method |-> Get(d, "method"), endpoint |-> Get(d, "endpoint"), query |-> Get(d, "query"), body |-> Get(d, "body"), oauth |-> Get(d, "oauth"), okOnly |-> Get(d, "okOnly")]

\* Attaching the response to the error: skipped when the reply has none.
ErrorWithResponse(reply) ==
    IF reply.response # <<>>
    THEN IF ResponseThrows(reply.response[1]) # ""
         THEN Rejected(ResponseThrows(reply.response[1]), "Response", <<>>)
         ELSE Rejected("Error", reply.message, <<Response(reply.response[1])>>)
    ELSE Rejected("Error", reply.message, <<>>)

\* The rest of sendRequest, run when the reply arrives.
sendRequestSettle(reply) ==
    IF reply.error
    THEN ErrorWithResponse(reply)
    ELSE IF reply.response = <<>>
         THEN Rejected("TypeError", "not iterable", <<>>)
         ELSE IF ResponseThrows(reply.response[1]) # ""
              THEN Rejected(ResponseThrows(reply.response[1]), "Response", <<>>)
              ELSE Resolved(<<Response(reply.response[1])>>, <<>>)

\* .then(response => response.json())
ThenJson(p) ==
    IF p.kind = "rejected"
    THEN p
    ELSE IF JSONParse(p.response[1].body) = <<>>
         THEN Rejected("SyntaxError", "JSON", <<>>)
         ELSE Resolved(<<>>, JSONParse(p.response[1].body))

\* ------------------------------------------ the convenience wrappers
\* Each is the descriptor it hands to sendRequest.
getJSON(endpoint, query, options) == Spread(Obj({<<"okOnly", "true">>, <<"method", "GET">>, <<"endpoint", endpoint>>, <<"query", Default(query, "{}")>>}), options)

\* A variant of post whose own values win over the caller's options.
post_OptionsFirst(endpoint, body, options) == Spread(options, Obj({<<"okOnly", "true">>, <<"method", "POST">>, <<"endpoint", endpoint>>, <<"body", body>>}))

post(endpoint, body, options) == Spread(Obj({<<"okOnly", "true">>, <<"method", "POST">>, <<"endpoint", endpoint>>, <<"body", body>>}), options)

apiOauthPOST(endpoint, body, options) == Spread(Obj({<<"method", "POST">>, <<"oauth", "true">>, <<"endpoint", endpoint>>, <<"body", body>>, <<"okOnly", "true">>}), options)

apiOauthGET(endpoint, query) == Obj({<<"method", "GET">>, <<"oauth", "true">>, <<"endpoint", endpoint>>, <<"query", query>>, <<"okOnly", "true">>})

apiOauthDELETE(endpoint, query) == Obj({<<"method", "DELETE">>, <<"oauth", "true">>, <<"endpoint", endpoint>>, <<"query", query>>, <<"okOnly", "true">>})

\* The wrappers that decode the body (.then(response => response.json())).
JsonOps == {"getJSON", "post"}

\* ------------------------------------------------------------ state
VARIABLES
    calls,        \* the wrapper calls of user code, by call number
    tries,        \* fetchUserDetails: the attempt budget of the running frame
    idInflight,   \* '/api/me.json' messages posted and not yet replied to
    idSent,       \* '/api/me.json' messages posted since module load
    idLog,        \* the settled getJSON('/api/me.json') promises, in order
    promise,      \* userDetailsPromise: its state and value
    cache,        \* TBStorage cache entry ('Utils', 'userDetails')
    cache0,       \* that entry as it was at module load
    cacheWrites,  \* TBStorage.setCache calls since module load
    getters       \* the getUserDetails/getModhash/getCurrentUser calls

vars == <<calls, tries, idInflight, idSent, idLog, promise, cache, cache0, cacheWrites, getters>>

relayVars == <<calls>>

identityVars == <<tries, idInflight, idSent, idLog, promise, cache, cache0, cacheWrites>>

CallIds == 1..MaxCalls

GetterIds == 1..MaxGetters

IdleCall == [st |-> "idle", op |-> "", opts |-> Obj({}), msg |-> <<>>, nSent |-> 0, nSettled |-> 0, json |-> FALSE, reply |-> <<>>, outcome |-> <<>>, result |-> <<>>]

IdleGetter == [st |-> "idle", op |-> "", details |-> <<>>, field |-> "", error |-> ""]

\* What the durable cache can hold at module load: nothing, or what an
\* earlier process stored after sanitizing it.
StoredValues == {<<>>, <<OldMe>>, <<EmptyObject>>}

\* The state once the module is loaded: fetchUserDetails() has run up to
\* its first await, so the first '/api/me.json' message is posted.
Init ==
    /\ calls = [c \in CallIds |-> IdleCall]
    /\ tries = DefaultTries
    /\ idInflight = 1
    /\ idSent = 1
    /\ idLog = <<>>
    /\ promise = [state |-> "pending", value |-> <<>>]
    /\ cache \in StoredValues
    /\ cache0 = cache
    /\ cacheWrites = 0
    /\ getters = [g \in GetterIds |-> IdleGetter]

\* ------------------------------------------------- relay: the calls
\* sendRequest up to its await: one message posted, the call suspended.
sendRequestPost(op, options, descriptor) == [IdleCall EXCEPT !.st = "awaiting", !.op = op, !.opts = options, !.msg = <<sendRequestMessage(descriptor)>>, !.nSent = 1, !.json = (op \in JsonOps)]

CallGetJSON(c) ==
    /\ calls[c].st = "idle"
    /\ \E e \in Endpoints, q \in Args, o \in OptionSets :
          calls' = [calls EXCEPT ![c] = sendRequestPost("getJSON", o, getJSON(e, q, o))]
    /\ UNCHANGED <<identityVars, getters>>

CallPost(c) ==
    /\ calls[c].st = "idle"
    /\ \E e \in Endpoints, o \in OptionSets :
          calls' = [calls EXCEPT ![c] = sendRequestPost("post", o, post(e, "arg", o))]
    /\ UNCHANGED <<identityVars, getters>>

CallApiOauthPOST(c) ==
    /\ calls[c].st = "idle"
    /\ \E e \in Endpoints, o \in OptionSets :
          calls' = [calls EXCEPT ![c] = sendRequestPost("apiOauthPOST", o, apiOauthPOST(e, "arg", o))]
    /\ UNCHANGED <<identityVars, getters>>

\* apiOauthGET and apiOauthDELETE take (endpoint, query): a third
\* argument a caller passes is not read.
CallApiOauthGET(c) ==
    /\ calls[c].st = "idle"
    /\ \E e \in Endpoints, o \in OptionSets :
          calls' = [calls EXCEPT ![c] = sendRequestPost("apiOauthGET", o, apiOauthGET(e, "arg"))]
    /\ UNCHANGED <<identityVars, getters>>

CallApiOauthDELETE(c) ==
    /\ calls[c].st = "idle"
    /\ \E e \in Endpoints, o \in OptionSets :
          calls' = [calls EXCEPT ![c] = sendRequestPost("apiOauthDELETE", o, apiOauthDELETE(e, "arg"))]
    /\ UNCHANGED <<identityVars, getters>>

\* A variant of the relay that posts the message again on an error reply.
SettledCall_RetryOnError(call, reply) ==
    LET p == sendRequestSettle(reply)
        r == IF call.json THEN ThenJson(p) ELSE p
    IN IF reply.error /\ call.nSent < 2
       THEN [call EXCEPT !.nSent = call.nSent + 1]
       ELSE [IdleCall EXCEPT !.st = r.kind, !.nSent = call.nSent, !.nSettled = call.nSettled + 1, !.json = call.json, !.reply = <<reply>>, !.outcome = <<p>>, !.result = <<r>>]

\* The reply to call c's message arrives: sendRequest settles, and the
\* wrapper's .then(response => response.json()) runs where it has one.
SettledCall(call, reply) ==
    LET p == sendRequestSettle(reply)
        r == IF call.json THEN ThenJson(p) ELSE p
    IN [IdleCall EXCEPT !.st = r.kind, !.nSent = call.nSent, !.nSettled = call.nSettled + 1, !.json = call.json, !.reply = <<reply>>, !.outcome = <<p>>, !.result = <<r>>]

ReplyArrives(c) ==
    /\ calls[c].st = "awaiting"
    /\ \E reply \in ReplyEnvelopes :
          calls' = [calls EXCEPT ![c] = SettledCall(calls[c], reply)]
    /\ UNCHANGED <<identityVars, getters>>

RelayNext ==
    \E c \in CallIds :
        \/ CallGetJSON(c)
        \/ CallPost(c)
        \/ CallApiOauthPOST(c)
        \/ CallApiOauthGET(c)
        \/ CallApiOauthDELETE(c)
        \/ ReplyArrives(c)

\* The relay never reads the cache: one stored value is enough.
RelayInit == Init /\ cache = <<>>

RelaySpec == RelayInit /\ [][RelayNext]_vars

\* ------------------------------------------- identity: the fetch
\* getJSON('/api/me.json'): the promise it returns once the reply to its
\* message has arrived.
MeResult(reply) == ThenJson(sendRequestSettle(reply))

\* What idLog keeps of a settled getJSON promise: its kind, the status of
\* error.response (0 when the error has no response) and the data.
LogEntry(p) == [kind |-> p.kind, status |-> IF p.response # <<>> THEN p.response[1].status ELSE 0, value |-> p.value]

\* Variants of the retry condition: one that also retries with a budget
\* of 1, and one that retries whatever the status of the response.
ShouldRetry_ExtraTry(error, t) == error.response # <<>> /\ error.response[1].status = GatewayTimeout /\ t > 0

ShouldRetry_AnyStatus(error, t) == error.response # <<>> /\ t > 1

\* error.response && error.response.status === 504 && tries > 1
ShouldRetry(error, t) == error.response # <<>> /\ error.response[1].status = GatewayTimeout /\ t > 1

\* A variant that stores the data before sanitizing it.
StoreDetails_StoreFirst(data) == [cache |-> <<data>>, value |-> <<purifyObject(data)>>]

\* purifyObject(data); setCache('Utils', 'userDetails', data); return data
StoreDetails(data) == LET d == purifyObject(data) IN [cache |-> <<d>>, value |-> <<d>>]

\* A variant without the fallback: the failure reaches the caller.
CacheFallback_Rethrow(stored) == [state |-> "rejected", value |-> <<>>]

\* .catch(() => TBStorage.getCache('Utils', 'userDetails'))
CacheFallback(stored) == [state |-> "fulfilled", value |-> stored]

\* The reply arrives and getJSON resolves: sanitize, store, resolve.
FetchSucceeds ==
    /\ idInflight > 0
    /\ \E reply \in MeReplyEnvelopes :
          LET p == MeResult(reply)
          IN /\ p.kind = "resolved"
             /\ cache' = StoreDetails(p.value[1]).cache
             /\ promise' = [state |-> "fulfilled", value |-> StoreDetails(p.value[1]).value]
             /\ idLog' = Append(idLog, LogEntry(p))
    /\ cacheWrites' = cacheWrites + 1
    /\ idInflight' = idInflight - 1
    /\ UNCHANGED <<tries, idSent, cache0, calls, getters>>

\* The reply arrives, getJSON rejects and the catch block retries:
\* fetchUserDetails(tries - 1) posts the next '/api/me.json' message.
FetchRetries ==
    /\ idInflight > 0
    /\ \E reply \in MeReplyEnvelopes :
          LET p == MeResult(reply)
          IN /\ p.kind = "rejected"
             /\ ShouldRetry(p, tries)
             /\ idLog' = Append(idLog, LogEntry(p))
    /\ tries' = tries - 1
    /\ idSent' = idSent + 1
    /\ UNCHANGED <<idInflight, promise, cache, cache0, cacheWrites, calls, getters>>

\* The reply arrives, getJSON rejects and the catch block rethrows: the
\* outer .catch settles userDetailsPromise from the cache.
FetchFallsBack ==
    /\ idInflight > 0
    /\ \E reply \in MeReplyEnvelopes :
          LET p == MeResult(reply)
          IN /\ p.kind = "rejected"
             /\ ~ShouldRetry(p, tries)
             /\ promise' = CacheFallback(cache)
             /\ idLog' = Append(idLog, LogEntry(p))
    /\ idInflight' = idInflight - 1
    /\ UNCHANGED <<tries, idSent, cache, cache0, cacheWrites, calls, getters>>

MeReplyArrives == FetchSucceeds \/ FetchRetries \/ FetchFallsBack

\* ------------------------------------------ identity: the getters
\* A version that runs the fetch again on every call.
getUserDetailsRefetch == idSent' = idSent + 1 /\ idInflight' = idInflight + 1 /\ UNCHANGED <<tries, idLog, promise, cache, cache0, cacheWrites>>

\* getUserDetails = () => userDetailsPromise: hands out the one promise.
getUserDetails == UNCHANGED identityVars

GetterTypeError == [st |-> "rejected", op |-> "", details |-> <<>>, field |-> "", error |-> "TypeError"]

\* A variant reading userDetails?.data?.modhash.
getModhash_OptionalChaining(userDetails) ==
    IF userDetails = <<>> \/ userDetails[1].data = <<>>
    THEN [st |-> "resolved", op |-> "", details |-> <<>>, field |-> Undefined, error |-> ""]
    ELSE [st |-> "resolved", op |-> "", details |-> <<>>, field |-> userDetails[1].data[1].modhash, error |-> ""]

\* return userDetails.data.modhash
getModhash(userDetails) ==
    IF userDetails = <<>> \/ userDetails[1].data = <<>>
    THEN GetterTypeError
    ELSE [st |-> "resolved", op |-> "", details |-> <<>>, field |-> userDetails[1].data[1].modhash, error |-> ""]

\* return userDetails.data.name
getCurrentUser(userDetails) ==
    IF userDetails = <<>> \/ userDetails[1].data = <<>>
    THEN GetterTypeError
    ELSE [st |-> "resolved", op |-> "", details |-> <<>>, field |-> userDetails[1].data[1].name, error |-> ""]

\* What a caller's await of userDetailsPromise gives, per getter.
AwaitUserDetails(op, pr) ==
    IF pr.state = "rejected"
    THEN [st |-> "rejected", op |-> op, details |-> <<>>, field |-> "", error |-> "Error"]
    ELSE IF op = "getUserDetails"
         THEN [st |-> "resolved", op |-> op, details |-> pr.value, field |-> "", error |-> ""]
         ELSE IF op = "getModhash"
              THEN [getModhash(pr.value) EXCEPT !.op = op]
              ELSE [getCurrentUser(pr.value) EXCEPT !.op = op]

CallGetUserDetails(g) ==
    /\ getters[g].st = "idle"
    /\ getUserDetails
    /\ getters' = [getters EXCEPT ![g] = [IdleGetter EXCEPT !.st = "awaiting", !.op = "getUserDetails"]]
    /\ UNCHANGED calls

CallGetModhash(g) ==
    /\ getters[g].st = "idle"
    /\ getUserDetails
    /\ getters' = [getters EXCEPT ![g] = [IdleGetter EXCEPT !.st = "awaiting", !.op = "getModhash"]]
    /\ UNCHANGED calls

CallGetCurrentUser(g) ==
    /\ getters[g].st = "idle"
    /\ getUserDetails
    /\ getters' = [getters EXCEPT ![g] = [IdleGetter EXCEPT !.st = "awaiting", !.op = "getCurrentUser"]]
    /\ UNCHANGED calls

\* userDetailsPromise is settled: the awaiting getter runs on.
ResumeGetter(g) ==
    /\ getters[g].st = "awaiting"
    /\ promise.state # "pending"
    /\ getters' = [getters EXCEPT ![g] = AwaitUserDetails(getters[g].op, promise)]
    /\ UNCHANGED <<identityVars, calls>>

GetterNext ==
    \E g \in GetterIds :
        \/ CallGetUserDetails(g)
        \/ CallGetModhash(g)
        \/ CallGetCurrentUser(g)
        \/ ResumeGetter(g)

IdentityNext == FetchSucceeds \/ FetchRetries \/ FetchFallsBack \/ GetterNext

IdentitySpec == Init /\ [][IdentityNext]_vars

\* Every relay call settles: the reply to a posted message arrives.
FairIdentitySpec == IdentitySpec /\ WF_vars(MeReplyArrives)

\* ------------------------------------------------ the whole program
Next == RelayNext \/ IdentityNext

Spec == Init /\ [][Next]_vars

\* ------------------------------------------------- claims: the relay
Settled(c) == calls[c].st \in {"resolved", "rejected"}

\* The reconstructed response has the status and body of the tuple.
SameResponse(resp, tuple) == resp.status = tuple[2].status /\ resp.body = tuple[1]

\* C7, as stated: for every reply, a truthy reply.error rejects with an
\* Error whose message is reply.message and whose response attribute is
\* there exactly when reply.response is, reconstructed with the same
\* status and body; a falsy reply.error with a response tuple resolves to
\* the reconstructed response with the same status and body.
C7_OutcomeFollowsEnvelope ==
    \A c \in CallIds : Settled(c) =>
        LET r == calls[c].reply[1]
            p == calls[c].outcome[1]
        IN /\ r.error =>
                /\ p.kind = "rejected"
                /\ p.message = r.message
                /\ (p.response # <<>>) <=> (r.response # <<>>)
                /\ r.response # <<>> /\ p.response # <<>> => SameResponse(p.response[1], r.response[1])
           /\ (~r.error /\ r.response # <<>>) =>
                /\ p.kind = "resolved"
                /\ p.response # <<>> /\ SameResponse(p.response[1], r.response[1])

\* C8: per call, one 'tb-request' message is posted, the call settles
\* once and only after its reply, with the outcome its own reply gives.
C8_CallInv ==
    \A c \in CallIds :
        /\ calls[c].st = "idle" => calls[c].nSent = 0 /\ calls[c].nSettled = 0
        /\ calls[c].st = "awaiting" =>
              /\ calls[c].nSent = 1 /\ calls[c].nSettled = 0
              /\ Len(calls[c].msg) = 1 /\ calls[c].msg[1].action = "tb-request"
        /\ Settled(c) =>
              /\ calls[c].nSent = 1 /\ calls[c].nSettled = 1
              /\ calls[c].msg = <<>> /\ calls[c].reply # <<>>
              /\ calls[c].st = calls[c].result[1].kind

\* C8: a step of one call leaves every other call as it was, and a call
\* settles only from the state in which it awaits its reply.
C8_CallStep ==
    \A c \in CallIds : calls'[c] # calls[c] =>
        /\ \A d \in CallIds \ {c} : calls'[d] = calls[d]
        /\ calls'[c].nSettled # calls[c].nSettled => calls[c].st = "awaiting" /\ calls'[c].reply # <<>>
        /\ calls'[c].nSent # calls[c].nSent => calls[c].st = "idle"

\* C8: for every request descriptor, one sendRequest call posts exactly
\* one 'tb-request' message and settles exactly once, after the reply
\* to that message; it never posts a second message, also on an error
\* reply, and concurrent calls do not affect each other.
C8_OneMessageOneSettle == [](C8_CallInv) /\ [][C8_CallStep]_vars

\* Two calls outstanding together, then one settled by an error reply
\* while the other still waits.
C8_Witness ==
    \E c, d \in CallIds :
        /\ c # d
        /\ calls[c].st = "rejected" /\ calls[c].reply[1].error /\ calls[c].nSent = 1
        /\ calls[d].st = "awaiting"

\* The contract table of the wrappers.
TableMethod(op) == IF op \in {"getJSON", "apiOauthGET"} THEN "GET" ELSE IF op = "apiOauthDELETE" THEN "DELETE" ELSE "POST"

TableOauth(op) == IF op \in {"apiOauthPOST", "apiOauthGET", "apiOauthDELETE"} THEN "true" ELSE Undefined

TableValue(op, k) == IF k = "okOnly" THEN "true" ELSE IF k = "method" THEN TableMethod(op) ELSE TableOauth(op)

\* The wrappers that take an options argument.
OptionOps == {"getJSON", "post", "apiOauthPOST"}

\* C9, as stated: whatever options the caller supplies, the message has
\* okOnly = true, the method of the contract table, oauth = true for the
\* OAuth variants and no oauth for getJSON and post.
C9_ParametersFixed ==
    \A c \in CallIds : calls[c].st = "awaiting" =>
        \A k \in {"okOnly", "method", "oauth"} : calls[c].msg[1][k] = TableValue(calls[c].op, k)

\* C9, amended: okOnly, method and oauth of the message are those of the
\* contract table unless the wrapper takes options (getJSON, post,
\* apiOauthPOST) and the caller's options carry that key, and then the
\* message has the caller's value.
C9_ParametersDefaulted ==
    \A c \in CallIds : calls[c].st = "awaiting" =>
        \A k \in {"okOnly", "method", "oauth"} :
            calls[c].msg[1][k] = IF calls[c].op \in OptionOps /\ k \in DOMAIN calls[c].opts THEN calls[c].opts[k] ELSE TableValue(calls[c].op, k)

\* A post whose options carry a method, and an apiOauthGET called with
\* the same kind of options, both awaiting.
C9_Witness ==
    \E c, d \in CallIds :
        /\ calls[c].st = "awaiting" /\ calls[c].op = "post"
        /\ "method" \in DOMAIN calls[c].opts /\ calls[c].msg[1].method = "PUT"
        /\ calls[d].st = "awaiting" /\ calls[d].op = "apiOauthGET"
        /\ "method" \in DOMAIN calls[d].opts /\ calls[d].msg[1].method = "GET"

\* --------------------------------------------- claims: the identity
Last(log) == log[Len(log)]

\* A getJSON promise rejected with an error whose response has status 504.
Is504(e) == e.kind = "rejected" /\ e.status = 504

All504(log) == \A i \in 1..Len(log) : Is504(log[i])

FetchSettled == idInflight = 0

FetchFailed == Len(idLog) >= 1 /\ Last(idLog).kind = "rejected" /\ FetchSettled

\* C1: while every attempt so far was rejected with status 504, fewer
\* than 3 attempts leave the next one in flight and the promise pending;
\* the 3rd ends the sequence: 3 attempts, never a 4th, the promise
\* resolved to what the cache held at the start (undefined when it held
\* nothing), and the cache not written.
C1_ThreeAttemptsThenCache ==
    /\ idSent <= 3
    /\ All504(idLog) =>
          /\ cacheWrites = 0 /\ cache = cache0
          /\ Len(idLog) < 3 => idSent = Len(idLog) + 1 /\ idInflight = 1 /\ promise.state = "pending"
          /\ Len(idLog) = 3 => idSent = 3 /\ idInflight = 0 /\ promise = [state |-> "fulfilled", value |-> cache0]

C1_Witness ==
    /\ Len(idLog) = 3 /\ All504(idLog)
    /\ cache0 = <<OldMe>>
    /\ promise = [state |-> "fulfilled", value |-> <<OldMe>>]

\* C2: an attempt follows only an attempt rejected with a response of
\* status 504; an attempt that fails otherwise (no response, or another
\* status) is the last one, whatever budget remains, and the promise is
\* settled from the cache.
C2_RetryOnlyAfter504 ==
    /\ idSent = Len(idLog) + idInflight
    /\ \A i \in 1..Len(idLog) : i < Len(idLog) => Is504(idLog[i])
    /\ \A i \in 1..Len(idLog) : (idLog[i].kind = "rejected" /\ ~Is504(idLog[i])) =>
          /\ i = Len(idLog) /\ idSent = i /\ idInflight = 0
          /\ promise = [state |-> "fulfilled", value |-> cache0]

\* The first attempt fails without a response, two attempts still in the
\* budget: no second attempt.
C2_Witness ==
    /\ Len(idLog) = 1 /\ idLog[1].kind = "rejected" /\ idLog[1].status = 0
    /\ tries = 3 /\ idSent = 1 /\ idInflight = 0
    /\ promise.state = "fulfilled"

\* No unsafe string is left in a details object.
IsSanitized(o) == o.data # <<>> => o.data[1].name # UnsafeName /\ o.data[1].modhash # UnsafeName

\* C3: when attempt k succeeds (after k-1 rejections with status 504),
\* k attempts were made, the cache was written once, with the sanitized
\* data, and the promise resolved to that same sanitized data; without a
\* success the cache is not written.
C3_SanitizeStoreResolve ==
    /\ (\A i \in 1..Len(idLog) : idLog[i].kind = "rejected") => cacheWrites = 0 /\ cache = cache0
    /\ \A k \in 1..Len(idLog) : idLog[k].kind = "resolved" =>
          /\ k = Len(idLog) /\ idSent = k /\ idInflight = 0
          /\ \A i \in 1..(k - 1) : Is504(idLog[i])
          /\ cacheWrites = 1
          /\ cache = <<purifyObject(idLog[k].value[1])>>
          /\ IsSanitized(cache[1])
          /\ promise = [state |-> "fulfilled", value |-> cache]

\* The third attempt succeeds with data that needs sanitizing.
C3_Witness ==
    /\ Len(idLog) = 3 /\ idLog[3].kind = "resolved" /\ idLog[3].value = <<RawMe>>
    /\ cache # cache0 /\ cache[1].data[1].name = SafeName
    /\ promise.value = cache

\* C4: the fetch is running once the module is loaded; at most one
\* attempt is in flight; every getUserDetails caller gets the value the
\* one promise resolved to.
C4_OneFetchInv ==
    /\ idSent >= 1 /\ idInflight <= 1
    /\ idSent = Len(idLog) + idInflight
    /\ (promise.state = "pending") <=> (idInflight = 1)
    /\ \A g \in GetterIds : (getters[g].op = "getUserDetails" /\ getters[g].st # "awaiting") =>
          getters[g].st = "resolved" /\ getters[g].details = promise.value

\* C4: a step of a getter starts no attempt and leaves the fetch, the
\* promise and the cache as they were; a settled promise stays as it is.
C4_OneFetchStep ==
    /\ getters' # getters => UNCHANGED identityVars
    /\ promise.state # "pending" => promise' = promise /\ idSent' = idSent

\* C4: the identity fetch is started once, at module load; calls of
\* getUserDetails, getModhash and getCurrentUser, before or after it
\* settles, start no attempt; at most one attempt is in flight and all
\* callers observe the same value.
C4_MemoizedIdentity == [](C4_OneFetchInv) /\ [][C4_OneFetchStep]_vars

\* Two getUserDetails callers resolved to the same fetched details while
\* one attempt was made.
C4_Witness ==
    /\ \A g \in GetterIds : getters[g].op = "getUserDetails" /\ getters[g].st = "resolved"
    /\ \A g \in GetterIds : getters[g].details = promise.value /\ promise.value # <<>>
    /\ idSent = 1 /\ cacheWrites = 1

\* C5: the promise is never rejected; when the sequence ends in a
\* failure it is fulfilled with the cached value (which may be
\* undefined), and no getUserDetails caller sees a rejection.
C5_NeverRejected ==
    /\ promise.state # "rejected"
    /\ FetchFailed => promise = [state |-> "fulfilled", value |-> cache] /\ cache = cache0
    /\ \A g \in GetterIds : getters[g].op = "getUserDetails" => getters[g].st # "rejected"

C6_RejectsWithoutDetails ==
    (FetchFailed /\ cache0 = <<>>) => promise.state = "rejected"

\* C10: getModhash and getCurrentUser give data.modhash and data.name of
\* the value the promise resolved to, and reject with a TypeError when
\* that value is undefined (or has no data to dereference).
C10_FieldsInv ==
    \A g \in GetterIds : (getters[g].op \in {"getModhash", "getCurrentUser"} /\ getters[g].st # "awaiting") =>
        /\ promise.state = "fulfilled"
        /\ promise.value = <<>> => getters[g].st = "rejected" /\ getters[g].error = "TypeError"
        /\ (promise.value # <<>> /\ promise.value[1].data = <<>>) => getters[g].st = "rejected" /\ getters[g].error = "TypeError"
        /\ (promise.value # <<>> /\ promise.value[1].data # <<>>) =>
              /\ getters[g].st = "resolved"
              /\ getters[g].op = "getModhash" => getters[g].field = promise.value[1].data[1].modhash
              /\ getters[g].op = "getCurrentUser" => getters[g].field = promise.value[1].data[1].name

\* C10: a step of getModhash or getCurrentUser starts no attempt and
\* does not write the cache.
C10_FieldsStep ==
    \A g \in GetterIds : (getters'[g] # getters[g] /\ getters'[g].op \in {"getModhash", "getCurrentUser"}) =>
        idSent' = idSent /\ idInflight' = idInflight /\ cache' = cache /\ cacheWrites' = cacheWrites

\* C10: getModhash and getCurrentUser resolve to the modhash and name of
\* whatever the identity promise resolved to, whenever they are called;
\* they reject with a dereference error when it resolved to undefined;
\* neither starts a fetch or writes the cache.
C10_ModhashAndName == [](C10_FieldsInv) /\ [][C10_FieldsStep]_vars

\* After a failed fetch the cached details serve both getters.
C10_Witness ==
    /\ FetchFailed /\ promise.value = <<OldMe>>
    /\ \E g, h \in GetterIds :
          /\ getters[g].op = "getModhash" /\ getters[g].st = "resolved" /\ getters[g].field = "mh-old"
          /\ getters[h].op = "getCurrentUser" /\ getters[h].st = "resolved" /\ getters[h].field = SafeName

====
